---- MODULE Spec2Model ----
(***************************************************************************)
(* A model of the recursive-descent parser of internal/parser/parser.go.   *)
(*                                                                         *)
(* The parser object is the pair (Tokens, Current).  Every grammar rule of *)
(* the source is an operator that takes the cursor position and returns    *)
(* the record [cur, expr, err, out]: the cursor position the rule leaves   *)
(* behind, the node it returns, the error it returns, and the lines it     *)
(* wrote to standard output.  Parse's loop is the state machine of Spec:   *)
(* one action per iteration, one for the final return.  CursorSpec drives  *)
(* the cursor methods one call at a time.  Literal values are written as   *)
(* strings: "false", "true", "nil", and the token's literal.               *)
(***************************************************************************)
EXTENDS Integers, Sequences, FiniteSets, TLC

VARIABLES
    Tokens,      \* Parser.Tokens: the token sequence, ended by an EOF token
    Current,     \* Parser.Current: 0-based index of the token at the cursor
    statements,  \* Parse's local slice of statements
    out,         \* what the parser printed (fmt.Print / fmt.Println), in order
    pc,          \* "loop": Parse is in its for loop; "done": Parse returned;
                 \* "cursor": the cursor operations are driven directly
    result,      \* the pair Parse returned, once pc = "done"
    starts,      \* history: Current at the start of each statement() call
    errs,        \* history: the error each statement() call returned
    ret          \* the last cursor operation and what it returned

vars == <<Tokens, Current, statements, out, pc, result, starts, errs, ret>>

---------------------------------------------------------------------------
(* Bounds of the model.                                                    *)

\* longest token sequence (EOF not counted) over ChainTypes and GroupTypes
MaxExprLen == 5
\* longest token sequence (EOF not counted) over StmtTypes
MaxStmtLen == 4
\* longest token sequence (EOF not counted) over all token types
MaxAnyLen == 2
\* longest token sequence (EOF not counted) the cursor operations are driven over
MaxCursorLen == 3
\* iterations of Parse's loop followed after one that left the cursor in place
MaxRepeat == 1

---------------------------------------------------------------------------
(* Tokens (package token, used by the parser through these names).         *)

\* the alphabets the inputs are drawn from: operators of every binary level,
\* unary operators and parentheses, the statement layer, and every type
ChainTypes == {"NUMBER", "MINUS", "PLUS", "STAR", "EQUAL_EQUAL", "LESS"}
GroupTypes == {"NUMBER", "BANG", "MINUS", "STAR", "LEFT_PAREN", "RIGHT_PAREN"}
StmtTypes == {"PRINT", "SEMICOLON", "NUMBER", "MINUS", "LEFT_PAREN", "RIGHT_PAREN"}
CursorTypes == {"PRINT", "SEMICOLON", "RIGHT_PAREN", "NUMBER", "STAR"}
AllTypes == {"LEFT_PAREN", "RIGHT_PAREN", "BANG", "MINUS", "PLUS", "STAR", "SLASH",
             "BANG_EQUAL", "EQUAL_EQUAL", "GREATER", "GREATER_EQUAL", "LESS",
             "LESS_EQUAL", "FALSE", "TRUE", "NIL", "NUMBER", "STRING",
             "PRINT", "SEMICOLON"}

Lexeme(type) ==
    CASE type = "LEFT_PAREN" -> "("
      [] type = "RIGHT_PAREN" -> ")"
      [] type = "BANG" -> "!"
      [] type = "MINUS" -> "-"
      [] type = "PLUS" -> "+"
      [] type = "STAR" -> "*"
      [] type = "SLASH" -> "/"
      [] type = "BANG_EQUAL" -> "!="
      [] type = "EQUAL_EQUAL" -> "=="
      [] type = "GREATER" -> ">"
      [] type = "GREATER_EQUAL" -> ">="
      [] type = "LESS" -> "<"
      [] type = "LESS_EQUAL" -> "<="
      [] type = "FALSE" -> "false"
      [] type = "TRUE" -> "true"
      [] type = "NIL" -> "nil"
      [] type = "NUMBER" -> "7"
      [] type = "STRING" -> "\"s\""
      [] type = "PRINT" -> "print"
      [] type = "SEMICOLON" -> ";"
      [] OTHER -> ""

\* the literal value the lexer attaches to a token ("" stands for none)
LiteralOf(type) ==
    CASE type = "NUMBER" -> "7"
      [] type = "STRING" -> "s"
      [] OTHER -> ""

\* the token of the given type at 0-based index i: the lexer puts it in
\* column i + 1 of line 1
Tok(type, i) ==
    [Type |-> type, Lexeme |-> Lexeme(type), Literal |-> LiteralOf(type),
     Line |-> 1, Char |-> i + 1]

\* the token sequence of the given types followed by the end marker
Lex(types) ==
    [i \in 1..(Len(types) + 1) |->
        IF i <= Len(types) THEN Tok(types[i], i - 1) ELSE Tok("EOF", i - 1)]

SeqsUpTo(S, n) == UNION {[1..k -> S] : k \in 0..n}

Inputs ==
    {Lex(ts) : ts \in SeqsUpTo(ChainTypes, MaxExprLen)
                        \cup SeqsUpTo(GroupTypes, MaxExprLen)
                        \cup SeqsUpTo(StmtTypes, MaxStmtLen)
                        \cup SeqsUpTo(AllTypes, MaxAnyLen)}

---------------------------------------------------------------------------
(* Values of the ast and errors packages.                                  *)

\* Go's nil, as an expression, a statement and an error
NilNode == [node |-> "nil"]
NilErr == [Type |-> "nil"]

ParserError(tok, message) ==
    [Type |-> "PARSER_ERROR", Line |-> tok.Line, Where |-> tok.Char,
     Message |-> message]

ExpectParen == "Expect ')' after expression."
ExpectSemicolon == "Expect ';' after value."
Unexpected(lexeme) == "Unexpected token '" \o lexeme \o "'"

Literal(v) == [node |-> "Literal", Value |-> v]
Grouping(e) == [node |-> "Grouping", Expression |-> e]
Unary(op, r) == [node |-> "Unary", Operator |-> op, Right |-> r]
Binary(l, op, r) == [node |-> "Binary", Left |-> l, Operator |-> op, Right |-> r]
ExpressionStmt(e) == [node |-> "ExpressionStmt", Expression |-> e]
PrintStmt(e) == [node |-> "PrintStmt", Expression |-> e]

\* the token a panicking previous() stands for (index out of range)
PanicTok == [Type |-> "PANIC"]

---------------------------------------------------------------------------
(* The token stream cursor.  c is Parser.Current.                          *)

peek(c) == Tokens[c + 1]

previous(c) == IF c >= 1 THEN Tokens[c] ELSE PanicTok

isAtEnd(c) == peek(c).Type = "EOF"

check(c, type) == IF isAtEnd(c) THEN FALSE ELSE peek(c).Type = type

\* advanceCur without the end-of-stream guard
advanceCurUnguarded(c) == c + 1

\* the position advance() leaves
advanceCur(c) == IF ~isAtEnd(c) THEN c + 1 ELSE c

advance(c) == [cur |-> advanceCur(c), tok |-> previous(advanceCur(c))]

match(c, types) ==
    IF \E i \in 1..Len(types) : check(c, types[i])
    THEN [cur |-> advance(c).cur, ok |-> TRUE]
    ELSE [cur |-> c, ok |-> FALSE]

\* consume that moves past the token it rejects
consumeSkipping(c, type, message) ==
    IF check(c, type)
    THEN [cur |-> advance(c).cur, tok |-> advance(c).tok, err |-> NilErr]
    ELSE [cur |-> advance(c).cur, tok |-> [Type |-> ""],
          err |-> ParserError(peek(c), message)]

consume(c, type, message) ==
    IF check(c, type)
    THEN [cur |-> advance(c).cur, tok |-> advance(c).tok, err |-> NilErr]
    ELSE [cur |-> c, tok |-> [Type |-> ""], err |-> ParserError(peek(c), message)]

---------------------------------------------------------------------------
(* The grammar rules.  Each takes the cursor position c it starts at and   *)
(* returns [cur, expr, err, out].  The result of a call a rule makes is    *)
(* handed to the operator that models the statements after the call.       *)

Ok(c, e, printed) == [cur |-> c, expr |-> e, err |-> NilErr, out |-> printed]
Fail(c, e, printed) == [cur |-> c, expr |-> NilNode, err |-> e, out |-> printed]

\* a line written to standard output by the function named site
Printed(site, e) == [site |-> site, err |-> e]

\* x, err := rule(); if err != nil { return nil, err }; return x, nil
Propagate(r) ==
    IF r.err # NilErr THEN Fail(r.cur, r.err, r.out) ELSE Ok(r.cur, r.expr, r.out)

RECURSIVE expression(_)
RECURSIVE equality(_)
RECURSIVE equalityLoop(_, _, _)
RECURSIVE comparison(_)
RECURSIVE comparisonLoop(_, _, _)
RECURSIVE term(_)
RECURSIVE termLoop(_, _, _)
RECURSIVE factor(_)
RECURSIVE factorLoop(_, _, _)
RECURSIVE unary(_)
RECURSIVE primary(_)

\* what the parenthesized case prints: the inner expression's error, if any
groupOut(inner) ==
    IF inner.err # NilErr
    THEN inner.out \o <<Printed("primary", inner.err)>>
    ELSE inner.out

\* the parenthesized case after its call of expression(), which returned inner
primaryClose(inner) ==
    LET closing == consume(inner.cur, "RIGHT_PAREN", ExpectParen)
    IN  IF closing.err # NilErr
        THEN Fail(closing.cur, closing.err, groupOut(inner))
        ELSE Ok(closing.cur, Grouping(inner.expr), groupOut(inner))

\* the parenthesized case of primary, entered at the position after "("
primaryGroup(c) == primaryClose(expression(c))

primary(c) ==
    IF match(c, <<"FALSE">>).ok THEN
        Ok(match(c, <<"FALSE">>).cur, Literal("false"), <<>>)
    ELSE IF match(c, <<"TRUE">>).ok THEN
        Ok(match(c, <<"TRUE">>).cur, Literal("true"), <<>>)
    ELSE IF match(c, <<"NIL">>).ok THEN
        Ok(match(c, <<"NIL">>).cur, Literal("nil"), <<>>)
    ELSE IF match(c, <<"NUMBER", "STRING">>).ok THEN
        Ok(match(c, <<"NUMBER", "STRING">>).cur,
           Literal(previous(match(c, <<"NUMBER", "STRING">>).cur).Literal), <<>>)
    ELSE IF match(c, <<"LEFT_PAREN">>).ok THEN
        primaryGroup(match(c, <<"LEFT_PAREN">>).cur)
    ELSE
        Fail(c, ParserError(peek(c), Unexpected(peek(c).Lexeme)), <<>>)

\* unary after its recursive call, which returned right
unaryNode(operator, right) ==
    IF right.err # NilErr
    THEN Fail(right.cur, right.err, right.out)
    ELSE Ok(right.cur, Unary(operator, right.expr), right.out)

\* unary whose operand is a primary: operators do not chain
unaryNoChain(c) ==
    LET m == match(c, <<"BANG", "MINUS">>)
    IN  IF m.ok
        THEN unaryNode(previous(m.cur), Propagate(primary(m.cur)))
        ELSE Propagate(primary(c))

unary(c) ==
    LET m == match(c, <<"BANG", "MINUS">>)
    IN  IF m.ok
        THEN unaryNode(previous(m.cur), unary(m.cur))
        ELSE Propagate(primary(c))

\* the body of factor's loop after the right operand was parsed
factorFold(expr, operator, right, printed) ==
    IF right.err # NilErr
    THEN Fail(right.cur, right.err, printed \o right.out)
    ELSE factorLoop(Binary(expr, operator, right.expr), right.cur, printed \o right.out)

\* factorLoop whose right operand is parsed one level too loose, by term
factorLoopLoose(expr, c, printed) ==
    LET m == match(c, <<"SLASH", "STAR">>)
    IN  IF ~m.ok
        THEN Ok(c, expr, printed)
        ELSE factorFold(expr, previous(m.cur), term(m.cur), printed)

\* the for loop of factor, entered with the tree built so far
factorLoop(expr, c, printed) ==
    LET m == match(c, <<"SLASH", "STAR">>)
    IN  IF ~m.ok
        THEN Ok(c, expr, printed)
        ELSE factorFold(expr, previous(m.cur), unary(m.cur), printed)

\* factor after its first operand was parsed
factorFrom(left) ==
    IF left.err # NilErr
    THEN Fail(left.cur, left.err, left.out)
    ELSE factorLoop(left.expr, left.cur, left.out)

factor(c) == factorFrom(unary(c))

\* the body of term's loop after the right operand was parsed
termFold(expr, operator, right, printed) ==
    IF right.err # NilErr
    THEN Fail(right.cur, right.err, printed \o right.out)
    ELSE termLoop(Binary(expr, operator, right.expr), right.cur, printed \o right.out)

\* termLoop whose right operand is the rest of the chain: right-nested
termLoopRightNested(expr, c, printed) ==
    LET m == match(c, <<"MINUS", "PLUS">>)
    IN  IF ~m.ok
        THEN Ok(c, expr, printed)
        ELSE termFold(expr, previous(m.cur), term(m.cur), printed)

\* the for loop of term
termLoop(expr, c, printed) ==
    LET m == match(c, <<"MINUS", "PLUS">>)
    IN  IF ~m.ok
        THEN Ok(c, expr, printed)
        ELSE termFold(expr, previous(m.cur), factor(m.cur), printed)

\* term after its first operand was parsed
termFrom(left) ==
    IF left.err # NilErr
    THEN Fail(left.cur, left.err, left.out)
    ELSE termLoop(left.expr, left.cur, left.out)

term(c) == termFrom(factor(c))

\* the body of comparison's loop after the right operand was parsed
comparisonFold(expr, operator, right, printed) ==
    IF right.err # NilErr
    THEN Fail(right.cur, right.err, printed \o right.out)
    ELSE comparisonLoop(Binary(expr, operator, right.expr), right.cur,
                        printed \o right.out)

\* the for loop of comparison
comparisonLoop(expr, c, printed) ==
    LET m == match(c, <<"GREATER", "GREATER_EQUAL", "LESS", "LESS_EQUAL">>)
    IN  IF ~m.ok
        THEN Ok(c, expr, printed)
        ELSE comparisonFold(expr, previous(m.cur), term(m.cur), printed)

\* comparison after its first operand was parsed
comparisonFrom(left) ==
    IF left.err # NilErr
    THEN Fail(left.cur, left.err, left.out)
    ELSE comparisonLoop(left.expr, left.cur, left.out)

comparison(c) == comparisonFrom(term(c))

\* the body of equality's loop after the right operand was parsed
equalityFold(expr, operator, right, printed) ==
    IF right.err # NilErr
    THEN Fail(right.cur, right.err, printed \o right.out)
    ELSE equalityLoop(Binary(expr, operator, right.expr), right.cur,
                      printed \o right.out)

\* the for loop of equality
equalityLoop(expr, c, printed) ==
    LET m == match(c, <<"BANG_EQUAL", "EQUAL_EQUAL">>)
    IN  IF ~m.ok
        THEN Ok(c, expr, printed)
        ELSE equalityFold(expr, previous(m.cur), comparison(m.cur), printed)

\* equality after its first operand was parsed
equalityFrom(left) ==
    IF left.err # NilErr
    THEN Fail(left.cur, left.err, left.out)
    ELSE equalityLoop(left.expr, left.cur, left.out)

equality(c) == equalityFrom(comparison(c))

expression(c) == Propagate(equality(c))

---------------------------------------------------------------------------
(* The statement layer.                                                    *)

\* printClose that takes the separator when present and does not require it
printCloseLenient(value) ==
    LET semi == consume(value.cur, "SEMICOLON", ExpectSemicolon)
    IN  IF value.err # NilErr
        THEN Fail(value.cur, value.err, value.out)
        ELSE Ok(semi.cur, PrintStmt(value.expr), value.out)

\* printStatement after its call of expression(), which returned value
printClose(value) ==
    LET semi == consume(value.cur, "SEMICOLON", ExpectSemicolon)
    IN  IF value.err # NilErr
        THEN Fail(value.cur, value.err, value.out)
        ELSE IF semi.err # NilErr
        THEN Fail(semi.cur, semi.err, value.out)
        ELSE Ok(semi.cur, PrintStmt(value.expr), value.out)

\* entered at the position after the print keyword
printStatement(c) == printClose(expression(c))

\* the expression-statement branch after its call of expression()
expressionStatement(expressionStmt) ==
    IF expressionStmt.err # NilErr
    THEN Fail(expressionStmt.cur, expressionStmt.err, expressionStmt.out)
    ELSE Ok(expressionStmt.cur, ExpressionStmt(expressionStmt.expr), expressionStmt.out)

statement(c) ==
    LET m == match(c, <<"PRINT">>)
    IN  IF m.ok
        THEN Propagate(printStatement(m.cur))
        ELSE expressionStatement(expression(c))

---------------------------------------------------------------------------
(* Parse: NewParser, then the loop, then the return.                       *)

NoRet == [op |-> "none"]

Init ==
    /\ Tokens \in Inputs
    /\ Current = 0
    /\ statements = <<>>
    /\ out = <<>>
    /\ pc = "loop"
    /\ result = [statements |-> <<>>, err |-> NilErr]
    /\ starts = <<>>
    /\ errs = <<>>
    /\ ret = NoRet

\* what one pass through the loop body prints: Parse prints the error of a
\* failed statement after whatever the statement printed itself
IterOut(r) ==
    IF r.err # NilErr THEN r.out \o <<Printed("Parse", r.err)>> ELSE r.out

\* the loop body after its call of statement(), which returned r
ParseAppend(r) ==
    /\ Current' = r.cur
    /\ out' = out \o IterOut(r)
    /\ statements' = Append(statements, r.expr)
    /\ starts' = Append(starts, Current)
    /\ errs' = Append(errs, r.err)

\* one iteration of Parse's loop
ParseIter ==
    /\ pc = "loop"
    /\ ~isAtEnd(Current)
    /\ Cardinality({i \in DOMAIN starts : starts[i] = Current}) <= MaxRepeat
    /\ ParseAppend(statement(Current))
    /\ UNCHANGED <<Tokens, pc, result, ret>>

\* the loop condition fails and Parse returns
ParseReturn ==
    /\ pc = "loop"
    /\ isAtEnd(Current)
    /\ pc' = "done"
    /\ result' = [statements |-> statements, err |-> NilErr]
    /\ UNCHANGED <<Tokens, Current, statements, out, starts, errs, ret>>

Next == ParseIter \/ ParseReturn

Spec == Init /\ [][Next]_vars

---------------------------------------------------------------------------
(* The cursor operations driven one at a time, in any order.               *)

\* the type lists the parser passes to match
MatchLists ==
    {<<"PRINT">>, <<"BANG_EQUAL", "EQUAL_EQUAL">>,
     <<"GREATER", "GREATER_EQUAL", "LESS", "LESS_EQUAL">>, <<"MINUS", "PLUS">>,
     <<"SLASH", "STAR">>, <<"BANG", "MINUS">>, <<"FALSE">>, <<"TRUE">>, <<"NIL">>,
     <<"NUMBER", "STRING">>, <<"LEFT_PAREN">>}

\* the (type, message) pairs the parser passes to consume
ConsumeArgs ==
    {<<"RIGHT_PAREN", ExpectParen>>, <<"SEMICOLON", ExpectSemicolon>>}

CursorInit ==
    /\ Tokens \in {Lex(ts) : ts \in SeqsUpTo(CursorTypes, MaxCursorLen)}
    /\ Current = 0
    /\ statements = <<>>
    /\ out = <<>>
    /\ pc = "cursor"
    /\ result = [statements |-> <<>>, err |-> NilErr]
    /\ starts = <<>>
    /\ errs = <<>>
    /\ ret = NoRet

\* a call that indexes Tokens out of range panics: nothing runs after it
AfterCall(tok) == IF tok = PanicTok THEN "panicked" ELSE "cursor"

Advance ==
    /\ pc = "cursor"
    /\ Current' = advance(Current).cur
    /\ ret' = [op |-> "advance", at |-> Current, tok |-> advance(Current).tok]
    /\ pc' = AfterCall(advance(Current).tok)
    /\ UNCHANGED <<Tokens, statements, out, result, starts, errs>>

Match ==
    /\ pc = "cursor"
    /\ \E types \in MatchLists :
          /\ Current' = match(Current, types).cur
          /\ ret' = [op |-> "match", at |-> Current,
                     ok |-> match(Current, types).ok]
    /\ UNCHANGED <<Tokens, statements, out, pc, result, starts, errs>>

Consume ==
    /\ pc = "cursor"
    /\ \E a \in ConsumeArgs :
          /\ Current' = consume(Current, a[1], a[2]).cur
          /\ ret' = [op |-> "consume", at |-> Current, type |-> a[1],
                     tok |-> consume(Current, a[1], a[2]).tok,
                     err |-> consume(Current, a[1], a[2]).err]
    /\ UNCHANGED <<Tokens, statements, out, pc, result, starts, errs>>

Peek ==
    /\ pc = "cursor"
    /\ ret' = [op |-> "peek", at |-> Current, tok |-> peek(Current)]
    /\ UNCHANGED <<Tokens, Current, statements, out, pc, result, starts, errs>>

Previous ==
    /\ pc = "cursor"
    /\ ret' = [op |-> "previous", at |-> Current, tok |-> previous(Current)]
    /\ pc' = AfterCall(previous(Current))
    /\ UNCHANGED <<Tokens, Current, statements, out, result, starts, errs>>

CursorNext == Advance \/ Match \/ Consume \/ Peek \/ Previous

CursorSpec == CursorInit /\ [][CursorNext]_vars

---------------------------------------------------------------------------
(* Vocabulary of the properties.                                           *)

\* the cursor position the i-th statement() call left behind
End(i) == IF i < Len(starts) THEN starts[i + 1] ELSE Current

\* 0-based access to the input
TokenAt(i) == Tokens[i + 1]

\* the types of the input before the end marker
InputTypes == [i \in 1..(Len(Tokens) - 1) |-> Tokens[i].Type]

\* the binding level of a binary operator, loosest first
Level(type) ==
    CASE type \in {"BANG_EQUAL", "EQUAL_EQUAL"} -> 1
      [] type \in {"GREATER", "GREATER_EQUAL", "LESS", "LESS_EQUAL"} -> 2
      [] type \in {"MINUS", "PLUS"} -> 3
      [] type \in {"SLASH", "STAR"} -> 4
      [] OTHER -> 0

IsBinaryOp(type) == Level(type) > 0
IsUnaryOp(type) == type \in {"BANG", "MINUS"}

\* every node of an expression tree, absent sub-expressions included
RECURSIVE Nodes(_)
Nodes(e) ==
    CASE e.node = "Binary" -> {e} \cup Nodes(e.Left) \cup Nodes(e.Right)
      [] e.node = "Unary" -> {e} \cup Nodes(e.Right)
      [] e.node = "Grouping" -> {e} \cup Nodes(e.Expression)
      [] OTHER -> {e}

\* the nodes of every statement parsed so far
AllNodes ==
    UNION {Nodes(statements[i].Expression) :
              i \in {j \in DOMAIN statements : statements[j] # NilNode}}

\* the literal node a NUMBER token at 0-based index i stands for
Num(i) == [node |-> "Literal", Value |-> TokenAt(i).Literal]

\* the left-nested tree over operands at 0, 2, .., 2n and operators at 1, 3, ..
RECURSIVE LeftNested(_)
LeftNested(n) ==
    IF n = 0
    THEN Num(0)
    ELSE [node |-> "Binary", Left |-> LeftNested(n - 1),
          Operator |-> TokenAt(2 * n - 1), Right |-> Num(2 * n)]

\* the input is operand (op operand)* with n >= 1 operators of one level
IsChain ==
    /\ Len(InputTypes) >= 3
    /\ Len(InputTypes) % 2 = 1
    /\ \A i \in DOMAIN InputTypes :
          IF i % 2 = 1
          THEN InputTypes[i] = "NUMBER"
          ELSE /\ IsBinaryOp(InputTypes[i])
               /\ Level(InputTypes[i]) = Level(InputTypes[2])

\* k unary operators at 0 .. k-1 applied, outermost first, to the tree e
RECURSIVE NestedUnary(_, _, _)
NestedUnary(from, k, e) ==
    IF k = 0
    THEN e
    ELSE [node |-> "Unary", Operator |-> TokenAt(from),
          Right |-> NestedUnary(from + 1, k - 1, e)]

\* the number of unary operator tokens the input starts with
RECURSIVE UnaryRun(_)
UnaryRun(i) ==
    IF i < Len(InputTypes) /\ IsUnaryOp(InputTypes[i + 1]) THEN 1 + UnaryRun(i + 1) ELSE 0

\* the node reached by following the left operands of Binary nodes
RECURSIVE LeftSpine(_)
LeftSpine(e) == IF e.node = "Binary" THEN LeftSpine(e.Left) ELSE e

---------------------------------------------------------------------------
(* C1.  Parse terminates on every input: what one iteration of the loop    *)
(* does depends on the cursor position alone, so the loop reaches the end  *)
(* marker exactly when every iteration moves the cursor forward; an        *)
(* iteration that leaves it in place repeats for ever.                     *)
C1_EveryIterationAdvances ==
    \A i \in DOMAIN starts : starts[i] < End(i)

(* C2.  Inside expression parsing no error is discarded: no tree returned  *)
(* to the statement layer holds a sub-expression that failed to parse, and *)
(* an expression in which a rule printed an error was returned as a        *)
(* failure.                                                                *)
C2_NoErrorDiscarded ==
    /\ NilNode \notin AllNodes
    /\ (\E k \in DOMAIN out : out[k].site = "primary")
          => (\E i \in DOMAIN errs : errs[i] # NilErr)

(* C3.  Parse returns a non-nil error when a statement produced a Parse    *)
(* Error; it returns nil only when every statement parsed.                 *)
C3_ErrorReturned ==
    pc = "done" =>
        ((\E i \in DOMAIN errs : errs[i] # NilErr) => result.err # NilErr)

(* C4.  The sequence Parse returns holds only PrintStatement and           *)
(* ExpressionStatement nodes, none absent, in source order: the tokens of  *)
(* element i come before those of element i + 1.                           *)
C4_StatementSequence ==
    pc = "done" =>
        /\ \A i \in DOMAIN result.statements :
              result.statements[i].node \in {"PrintStmt", "ExpressionStmt"}
        /\ \A i \in DOMAIN starts : i < Len(starts) => starts[i] < starts[i + 1]

(* C5.  Operators of one level associate to the left: the right operand of *)
(* a Binary node is never an ungrouped Binary node of the same level, and  *)
(* an input a op b op c .. with operators of one level parses to the       *)
(* left-nested tree, as one expression statement.                          *)
C5_LeftAssociative ==
    /\ \A n \in AllNodes :
          n.node = "Binary" /\ n.Right.node = "Binary"
              => Level(n.Right.Operator.Type) # Level(n.Operator.Type)
    /\ IsChain /\ statements # <<>> =>
          /\ statements[1] = [node |-> "ExpressionStmt",
                              Expression |-> LeftNested((Len(InputTypes) - 1) \div 2)]
          /\ End(1) = Len(InputTypes)

\* a - b + c was parsed to Binary(Binary(a, -, b), +, c)
C5_Witness ==
    /\ InputTypes = <<"NUMBER", "MINUS", "NUMBER", "PLUS", "NUMBER">>
    /\ pc = "done"
    /\ Len(result.statements) = 1
    /\ result.statements[1].Expression.node = "Binary"
    /\ result.statements[1].Expression.Operator.Type = "PLUS"
    /\ result.statements[1].Expression.Left.node = "Binary"
    /\ result.statements[1].Expression.Left.Operator.Type = "MINUS"

(* C6.  Precedence: no Binary or Unary node has as an ungrouped child a    *)
(* Binary node of a looser level, and an input a op1 b op2 c nests the     *)
(* tighter operator inside the looser one.                                 *)
C6_Precedence ==
    /\ \A n \in AllNodes :
          /\ n.node = "Binary" /\ n.Left.node = "Binary"
                => Level(n.Left.Operator.Type) >= Level(n.Operator.Type)
          /\ n.node = "Binary" /\ n.Right.node = "Binary"
                => Level(n.Right.Operator.Type) >= Level(n.Operator.Type)
          /\ n.node = "Unary" => n.Right.node # "Binary"
    /\ /\ Len(InputTypes) = 5
       /\ InputTypes[1] = "NUMBER" /\ InputTypes[3] = "NUMBER" /\ InputTypes[5] = "NUMBER"
       /\ IsBinaryOp(InputTypes[2]) /\ IsBinaryOp(InputTypes[4])
       /\ statements # <<>>
       => /\ End(1) = 5
          /\ statements[1].node = "ExpressionStmt"
          /\ statements[1].Expression =
                IF Level(InputTypes[4]) > Level(InputTypes[2])
                THEN [node |-> "Binary", Left |-> Num(0), Operator |-> TokenAt(1),
                      Right |-> [node |-> "Binary", Left |-> Num(2),
                                 Operator |-> TokenAt(3), Right |-> Num(4)]]
                ELSE [node |-> "Binary",
                      Left |-> [node |-> "Binary", Left |-> Num(0),
                                Operator |-> TokenAt(1), Right |-> Num(2)],
                      Operator |-> TokenAt(3), Right |-> Num(4)]

\* a + b * c was parsed to Binary(a, +, Binary(b, *, c))
C6_Witness ==
    /\ InputTypes = <<"NUMBER", "PLUS", "NUMBER", "STAR", "NUMBER">>
    /\ pc = "done"
    /\ Len(result.statements) = 1
    /\ result.statements[1].Expression.Operator.Type = "PLUS"
    /\ result.statements[1].Expression.Right.node = "Binary"
    /\ result.statements[1].Expression.Right.Operator.Type = "STAR"

(* C7.  Unary operators nest to the right: when the input starts with k    *)
(* unary operators followed by a literal, the first statement's leftmost   *)
(* operand is k nested Unary nodes, outermost first in token order, around *)
(* that literal; when nothing follows the literal the statement is exactly *)
(* that chain; and the operator of every Unary node is the token of the    *)
(* input at the operator's own position.                                   *)
C7_UnaryChain ==
    /\ \A n \in AllNodes :
          n.node = "Unary" =>
              /\ IsUnaryOp(n.Operator.Type)
              /\ n.Operator.Char \in 1..Len(InputTypes)
              /\ TokenAt(n.Operator.Char - 1) = n.Operator
    /\ LET k == UnaryRun(0)
       IN  /\ k >= 1
           /\ k < Len(InputTypes)
           /\ InputTypes[k + 1] = "NUMBER"
           /\ statements # <<>>
           => /\ statements[1] # NilNode =>
                    LeftSpine(statements[1].Expression) = NestedUnary(0, k, Num(k))
              /\ k + 1 = Len(InputTypes) =>
                    /\ statements[1] = [node |-> "ExpressionStmt",
                                        Expression |-> NestedUnary(0, k, Num(k))]
                    /\ End(1) = k + 1

\* ! - 7 was parsed to Unary(!, Unary(-, Literal(7)))
C7_Witness ==
    /\ InputTypes = <<"BANG", "MINUS", "NUMBER">>
    /\ pc = "done"
    /\ Len(result.statements) = 1
    /\ result.statements[1].Expression.node = "Unary"
    /\ result.statements[1].Expression.Operator.Type = "BANG"
    /\ result.statements[1].Expression.Right.node = "Unary"
    /\ result.statements[1].Expression.Right.Operator.Type = "MINUS"
    /\ result.statements[1].Expression.Right.Right.node = "Literal"

\* where the expression of the i-th statement begins: after the print
\* keyword when the statement starts with one
ExprStart(i) ==
    IF TokenAt(starts[i]).Type = "PRINT" THEN starts[i] + 1 ELSE starts[i]

\* the error value reported at the token at 0-based index q
ErrorAt(q, message) ==
    [Type |-> "PARSER_ERROR", Line |-> TokenAt(q).Line, Where |-> TokenAt(q).Char,
     Message |-> message]

(* C8.  A grouping whose inner expression is not followed by ")" yields    *)
(* the error "Expect ')' after expression." at the line and column of the  *)
(* token after the inner expression; the cursor stays on that token and no *)
(* node is produced.  Checked for the grouping a statement's expression    *)
(* starts with, for every statement that failed with this message, and on  *)
(* ( a - b with no closing parenthesis.                                    *)
C8_MissingParen ==
    /\ \A i \in DOMAIN starts :
          /\ TokenAt(ExprStart(i)).Type = "LEFT_PAREN"
                /\ TokenAt(expression(ExprStart(i) + 1).cur).Type # "RIGHT_PAREN"
                => /\ errs[i] = ErrorAt(expression(ExprStart(i) + 1).cur,
                                        "Expect ')' after expression.")
                   /\ End(i) = expression(ExprStart(i) + 1).cur
                   /\ statements[i] = NilNode
          /\ errs[i] # NilErr /\ errs[i].Message = "Expect ')' after expression."
                => /\ errs[i].Line = TokenAt(End(i)).Line
                   /\ errs[i].Where = TokenAt(End(i)).Char
                   /\ TokenAt(End(i)).Type # "RIGHT_PAREN"
                   /\ statements[i] = NilNode
    /\ InputTypes = <<"LEFT_PAREN", "NUMBER", "MINUS", "NUMBER">> /\ errs # <<>>
          => /\ errs[1] = [Type |-> "PARSER_ERROR", Line |-> 1, Where |-> 5,
                           Message |-> "Expect ')' after expression."]
             /\ Current = 4
             /\ statements = <<NilNode>>

\* ( a - b with no closing parenthesis was parsed and failed at the end marker
C8_Witness ==
    /\ InputTypes = <<"LEFT_PAREN", "NUMBER", "MINUS", "NUMBER">>
    /\ Len(errs) = 1
    /\ errs[1] # NilErr
    /\ errs[1].Message = "Expect ')' after expression."
    /\ Current = 4

(* C9.  A statement that starts with the print keyword consumes it and    *)
(* parses one expression; it yields PrintStatement(expr), consuming the    *)
(* separator, exactly when the token after the expression is ";", and      *)
(* otherwise the error "Expect ';' after value." at that token and no      *)
(* node.  Any other statement yields ExpressionStatement(expr) and         *)
(* consumes no separator.  Both cases are those in which the expression    *)
(* parses; when it fails the statement yields the expression's error and   *)
(* no node.                                                                *)
C9_StatementRule ==
    \A i \in DOMAIN starts :
        LET value == expression(ExprStart(i))
        IN  IF value.err # NilErr
            THEN /\ statements[i] = NilNode
                 /\ errs[i] = value.err
                 /\ End(i) = value.cur
            ELSE IF TokenAt(starts[i]).Type = "PRINT"
            THEN IF TokenAt(value.cur).Type = "SEMICOLON"
                 THEN /\ statements[i] = [node |-> "PrintStmt", Expression |-> value.expr]
                      /\ errs[i] = NilErr
                      /\ End(i) = value.cur + 1
                 ELSE /\ statements[i] = NilNode
                      /\ errs[i] = ErrorAt(value.cur, "Expect ';' after value.")
                      /\ End(i) = value.cur
            ELSE /\ statements[i] = [node |-> "ExpressionStmt", Expression |-> value.expr]
                 /\ errs[i] = NilErr
                 /\ End(i) = value.cur

\* print 7 ; 7 was parsed to a PrintStatement followed by an ExpressionStatement
C9_Witness ==
    /\ InputTypes = <<"PRINT", "NUMBER", "SEMICOLON", "NUMBER">>
    /\ pc = "done"
    /\ result.statements[1] = [node |-> "PrintStmt",
                               Expression |-> [node |-> "Literal", Value |-> "7"]]
    /\ result.statements[2].node = "ExpressionStmt"
    /\ starts = <<0, 3>>

(* C10.  advance() returns the token that was at the cursor and moves the  *)
(* cursor forward by one, unless that token is the end marker, and then    *)
(* the cursor stays; under any sequence of cursor operations the cursor    *)
(* never passes the end marker and never moves back.                       *)
C10_Advance ==
    /\ Current \in 0..(Len(Tokens) - 1)
    /\ ret # NoRet => ret.at <= Current
    /\ ret # NoRet /\ ret.op = "advance" =>
          IF TokenAt(ret.at).Type = "EOF"
          THEN Current = ret.at
          ELSE Current = ret.at + 1 /\ ret.tok = TokenAt(ret.at)

\* advance() was called on the end marker after the cursor had moved
C10_Witness ==
    /\ ret # NoRet
    /\ ret.op = "advance"
    /\ ret.at >= 1
    /\ TokenAt(ret.at).Type = "EOF"
    /\ Current = ret.at

====
